---------------------------- MODULE Spec2Model ----------------------------
(***************************************************************************)
(* The gzip reader pair of src/gz/bufread.rs: GzEncoder, GzDecoder and     *)
(* MultiGzDecoder, with the header parser read_gz_header and the replay    *)
(* reader Buffer.                                                          *)
(*                                                                         *)
(* A u32 is a record [hi, lo] of two 16-bit halves (the integers of TLC    *)
(* are 32-bit signed).  An Option is a sequence of length 0 (None) or 1    *)
(* (Some).  An io::Error is the string naming it.                          *)
(***************************************************************************)
EXTENDS Integers, Sequences, FiniteSets, TLC

(***************************************************************************)
(* Bounds of the model.                                                    *)
(***************************************************************************)
MaxCap == 2
MaxChunk == 2

Min(a, b) == IF a < b THEN a ELSE b

Drop(s, k) == SubSeq(s, k + 1, Len(s))

Take(s, k) == SubSeq(s, 1, k)

IsPrefix(s, t) == Len(s) <= Len(t) /\ Take(t, Len(s)) = s

RECURSIVE Flatten(_)
Flatten(ss) == IF ss = <<>> THEN <<>> ELSE Head(ss) \o Flatten(Tail(ss))

(***************************************************************************)
(* u32 arithmetic on halves.                                               *)
(***************************************************************************)
\* a xor b for 4-bit a and b
XorNibble ==
   <<
      <<0, 1, 2, 3, 4, 5, 6, 7, 8, 9, 10, 11, 12, 13, 14, 15>>,
      <<1, 0, 3, 2, 5, 4, 7, 6, 9, 8, 11, 10, 13, 12, 15, 14>>,
      <<2, 3, 0, 1, 6, 7, 4, 5, 10, 11, 8, 9, 14, 15, 12, 13>>,
      <<3, 2, 1, 0, 7, 6, 5, 4, 11, 10, 9, 8, 15, 14, 13, 12>>,
      <<4, 5, 6, 7, 0, 1, 2, 3, 12, 13, 14, 15, 8, 9, 10, 11>>,
      <<5, 4, 7, 6, 1, 0, 3, 2, 13, 12, 15, 14, 9, 8, 11, 10>>,
      <<6, 7, 4, 5, 2, 3, 0, 1, 14, 15, 12, 13, 10, 11, 8, 9>>,
      <<7, 6, 5, 4, 3, 2, 1, 0, 15, 14, 13, 12, 11, 10, 9, 8>>,
      <<8, 9, 10, 11, 12, 13, 14, 15, 0, 1, 2, 3, 4, 5, 6, 7>>,
      <<9, 8, 11, 10, 13, 12, 15, 14, 1, 0, 3, 2, 5, 4, 7, 6>>,
      <<10, 11, 8, 9, 14, 15, 12, 13, 2, 3, 0, 1, 6, 7, 4, 5>>,
      <<11, 10, 9, 8, 15, 14, 13, 12, 3, 2, 1, 0, 7, 6, 5, 4>>,
      <<12, 13, 14, 15, 8, 9, 10, 11, 4, 5, 6, 7, 0, 1, 2, 3>>,
      <<13, 12, 15, 14, 9, 8, 11, 10, 5, 4, 7, 6, 1, 0, 3, 2>>,
      <<14, 15, 12, 13, 10, 11, 8, 9, 6, 7, 4, 5, 2, 3, 0, 1>>,
      <<15, 14, 13, 12, 11, 10, 9, 8, 7, 6, 5, 4, 3, 2, 1, 0>> >>

\* a xor b for 16-bit a and b
XorBits(a, b) ==
    XorNibble[(a % 16) + 1][(b % 16) + 1]
      + 16 * XorNibble[((a \div 16) % 16) + 1][((b \div 16) % 16) + 1]
      + 256 * XorNibble[((a \div 256) % 16) + 1][((b \div 256) % 16) + 1]
      + 4096 * XorNibble[(a \div 4096) + 1][(b \div 4096) + 1]

U32(hi, lo) == [hi |-> hi, lo |-> lo]

Zero32 == U32(0, 0)

Xor32(x, y) == U32(XorBits(x.hi, y.hi), XorBits(x.lo, y.lo))

Not32(x) == U32(65535 - x.hi, 65535 - x.lo)

Shr4(x) == U32(x.hi \div 16, (x.lo \div 16) + 4096 * (x.hi % 16))

\* (x + n) mod 2^32, for a small n
Add32(x, n) ==
    LET lo == x.lo + n
    IN  U32((x.hi + (lo \div 65536)) % 65536, lo % 65536)

\* (x >> 8k) as u8
ByteOf(x, k) ==
    CASE k = 0 -> x.lo % 256
      [] k = 1 -> x.lo \div 256
      [] k = 2 -> x.hi % 256
      [] k = 3 -> x.hi \div 256

(***************************************************************************)
(* The CRC-32 of gzip (reflected polynomial EDB88320, initial value and    *)
(* final xor FFFFFFFF), table driven, and the running checksum of a        *)
(* CrcReader: sum() and amount().                                          *)
(***************************************************************************)
\* the table of the nibble-wise algorithm, as its high and low halves
CrcTableHi ==
    <<0, 7607, 15214, 9945, 30428, 27499, 19890, 20485,
      60856, 61455, 54998, 52065, 39780, 34515, 40970, 48573>>

CrcTableLo ==
    <<0, 4196, 8392, 12460, 16784, 20980, 24920, 28988,
      33568, 37700, 41960, 45964, 49840, 53972, 57976, 61980>>

CrcStep(c) ==
    Xor32(U32(CrcTableHi[(c.lo % 16) + 1], CrcTableLo[(c.lo % 16) + 1]), Shr4(c))

\* the register after bytes; its halves are looked at in every step, which
\* makes TLC evaluate the register there and not at the end
RECURSIVE CrcRaw(_, _)
CrcRaw(c, bytes) ==
    IF bytes = <<>> \/ c.hi + c.lo < 0 THEN c
    ELSE CrcRaw(CrcStep(CrcStep(U32(c.hi, XorBits(c.lo, Head(bytes))))), Tail(bytes))

CrcUpdate(crc, bytes) ==
    [sum |-> Not32(CrcRaw(Not32(crc.sum), bytes)),
     amt |-> Add32(crc.amt, Len(bytes))]

CrcNew == [sum |-> Zero32, amt |-> Zero32]

Crc32(bytes) == CrcUpdate(CrcNew, bytes).sum

(***************************************************************************)
(* The underlying byte source R: BufRead.  data is what it has yet to      *)
(* yield, avail how much of that is ready now, err a pending error, taken  *)
(* how many bytes it has yielded and faults how many errors it may still   *)
(* raise.  A read with nothing ready fails with WouldBlock while data      *)
(* remains and returns 0 at the end of the data.  A pending error is       *)
(* reported once.                                                          *)
(***************************************************************************)
SrcRead(s, n) ==
    IF s.err # "none"
      THEN [kind |-> s.err, bytes |-> <<>>, s |-> [s EXCEPT !.err = "none"]]
    ELSE IF n = 0 \/ s.data = <<>>
      THEN [kind |-> "ok", bytes |-> <<>>, s |-> s]
    ELSE IF s.avail = 0
      THEN [kind |-> "WouldBlock", bytes |-> <<>>, s |-> s]
    ELSE LET k == Min(n, s.avail)
         IN  [kind |-> "ok", bytes |-> Take(s.data, k),
              s |-> [s EXCEPT !.data = Drop(s.data, k), !.avail = s.avail - k,
                              !.taken = s.taken + k]]

SrcFillBuf(s) ==
    IF s.err # "none"
      THEN [kind |-> s.err, bytes |-> <<>>, s |-> [s EXCEPT !.err = "none"]]
    ELSE IF s.data # <<>> /\ s.avail = 0
      THEN [kind |-> "WouldBlock", bytes |-> <<>>, s |-> s]
    ELSE [kind |-> "ok", bytes |-> Take(s.data, s.avail), s |-> s]

SrcConsume(s, k) ==
    [s EXCEPT !.data = Drop(s.data, k), !.avail = s.avail - k, !.taken = s.taken + k]

(***************************************************************************)
(* Buffer: a cursor over the first lim bytes of buf (Take over Cursor),    *)
(* then the reader, whose bytes are appended to buf.                       *)
(***************************************************************************)
BufferNew(buf, reader) == [buf |-> buf, cur |-> 0, lim |-> Len(buf), r |-> reader]

BufferReadNoAppend(b, n) ==
    LET k1 == Min(n, b.lim - b.cur)
        b1 == [b EXCEPT !.cur = b.cur + k1]
        part1 == SubSeq(b.buf, b.cur + 1, b.cur + k1)
        FromReader(rr) ==
            IF rr.kind # "ok"
              THEN [kind |-> rr.kind, bytes |-> <<>>, b |-> [b1 EXCEPT !.r = rr.s]]
            ELSE IF rr.bytes = <<>>
              THEN [kind |-> "BadHeader", bytes |-> <<>>, b |-> [b1 EXCEPT !.r = rr.s]]
            ELSE [kind |-> "ok", bytes |-> part1 \o rr.bytes,
                  b |-> [b1 EXCEPT !.r = rr.s]]
    IN  IF n > k1 THEN FromReader(SrcRead(b.r, n - k1))
        ELSE [kind |-> "ok", bytes |-> part1, b |-> b1]

\* Buffer::read, but taking one byte more from the reader than it hands on
BufferReadAhead(b, n) ==
    LET k1 == Min(n, b.lim - b.cur)
        b1 == [b EXCEPT !.cur = b.cur + k1]
        part1 == SubSeq(b.buf, b.cur + 1, b.cur + k1)
        FromReader(rr) ==
            IF rr.kind # "ok"
              THEN [kind |-> rr.kind, bytes |-> <<>>, b |-> [b1 EXCEPT !.r = rr.s]]
            ELSE IF rr.bytes = <<>>
              THEN [kind |-> "BadHeader", bytes |-> <<>>, b |-> [b1 EXCEPT !.r = rr.s]]
            ELSE [kind |-> "ok", bytes |-> part1 \o Take(rr.bytes, Min(Len(rr.bytes), n - k1)),
                  b |-> [b1 EXCEPT !.r = rr.s,
                                   !.buf = b.buf \o Take(rr.bytes, Min(Len(rr.bytes), n - k1))]]
    IN  IF n > k1 THEN FromReader(SrcRead(b.r, n - k1 + 1))
        ELSE [kind |-> "ok", bytes |-> part1, b |-> b1]

\* Buffer::read, but passing on a read of 0 bytes from the reader
BufferReadZeroOk(b, n) ==
    LET k1 == Min(n, b.lim - b.cur)
        b1 == [b EXCEPT !.cur = b.cur + k1]
        part1 == SubSeq(b.buf, b.cur + 1, b.cur + k1)
        FromReader(rr) ==
            IF rr.kind # "ok"
              THEN [kind |-> rr.kind, bytes |-> <<>>, b |-> [b1 EXCEPT !.r = rr.s]]
            ELSE [kind |-> "ok", bytes |-> part1 \o rr.bytes,
                  b |-> [b1 EXCEPT !.r = rr.s, !.buf = b.buf \o rr.bytes]]
    IN  IF n > k1 THEN FromReader(SrcRead(b.r, n - k1))
        ELSE [kind |-> "ok", bytes |-> part1, b |-> b1]

BufferRead(b, n) ==
    LET k1 == Min(n, b.lim - b.cur)
        b1 == [b EXCEPT !.cur = b.cur + k1]
        part1 == SubSeq(b.buf, b.cur + 1, b.cur + k1)
        FromReader(rr) ==
            IF rr.kind # "ok"
              THEN [kind |-> rr.kind, bytes |-> <<>>, b |-> [b1 EXCEPT !.r = rr.s]]
            ELSE IF rr.bytes = <<>>
              THEN [kind |-> "BadHeader", bytes |-> <<>>, b |-> [b1 EXCEPT !.r = rr.s]]
            ELSE [kind |-> "ok", bytes |-> part1 \o rr.bytes,
                  b |-> [b1 EXCEPT !.r = rr.s, !.buf = b.buf \o rr.bytes]]
    IN  IF n > k1 THEN FromReader(SrcRead(b.r, n - k1))
        ELSE [kind |-> "ok", bytes |-> part1, b |-> b1]

\* Read::read_exact over a Buffer
RECURSIVE ReadExact(_, _, _)
ReadExact(b, n, acc) ==
    LET Got(rr) ==
            IF rr.kind # "ok" THEN [kind |-> rr.kind, bytes |-> acc, b |-> rr.b]
            ELSE IF rr.bytes = <<>>
              THEN [kind |-> "UnexpectedEof", bytes |-> acc, b |-> rr.b]
            ELSE ReadExact(rr.b, n - Len(rr.bytes), acc \o rr.bytes)
    IN  IF n = 0 THEN [kind |-> "ok", bytes |-> acc, b |-> b]
        ELSE Got(BufferRead(b, n))

\* the loop over Read::bytes() that stops after a zero byte: val is what
\* was pushed, seen every byte read (the terminator too)
RECURSIVE ReadCStr(_, _, _)
ReadCStr(b, val, seen) ==
    LET Got(rr) ==
            IF rr.kind # "ok" THEN [kind |-> rr.kind, val |-> val, seen |-> seen, b |-> rr.b]
            ELSE IF rr.bytes = <<>>
              THEN [kind |-> "ok", val |-> val, seen |-> seen, b |-> rr.b]
            ELSE IF rr.bytes[1] = 0
              THEN [kind |-> "ok", val |-> val, seen |-> seen \o rr.bytes, b |-> rr.b]
            ELSE ReadCStr(rr.b, val \o rr.bytes, seen \o rr.bytes)
    IN  Got(BufferRead(b, 1))

(***************************************************************************)
(* read_gz_header                                                          *)
(***************************************************************************)
FHCRC == 2
FEXTRA == 4
FNAME == 8
FCOMMENT == 16

HasFlag(flg, bit) == (flg \div bit) % 2 = 1

FromLE(b0, b1, b2, b3) == U32(b2 + 256 * b3, b0 + 256 * b1)

GzHeader(extra, filename, comment, os, mtime) ==
    [extra |-> extra, filename |-> filename, comment |-> comment,
     operating_system |-> os, mtime |-> mtime]

HdrFail(kind, b) == [kind |-> kind, hdr |-> <<>>, b |-> b]

\* the FEXTRA field: read_le_u16, then read_exact of xlen bytes
ReadExtra(b, flg) ==
    LET Data(l, e) ==
            IF e.kind # "ok"
              THEN [kind |-> e.kind, val |-> <<>>, seen |-> <<>>, b |-> e.b]
            ELSE [kind |-> "ok", val |-> <<e.bytes>>, seen |-> l.bytes \o e.bytes, b |-> e.b]
        Xlen(l) ==
            IF l.kind # "ok"
              THEN [kind |-> l.kind, val |-> <<>>, seen |-> <<>>, b |-> l.b]
            ELSE Data(l, ReadExact(l.b, l.bytes[1] + 256 * l.bytes[2], <<>>))
    IN  IF ~HasFlag(flg, FEXTRA)
          THEN [kind |-> "ok", val |-> <<>>, seen |-> <<>>, b |-> b]
        ELSE Xlen(ReadExact(b, 2, <<>>))

\* the FNAME and FCOMMENT fields
ReadText(b, flg, bit) ==
    LET Some(t) == [kind |-> t.kind, val |-> <<t.val>>, seen |-> t.seen, b |-> t.b]
    IN  IF ~HasFlag(flg, bit)
          THEN [kind |-> "ok", val |-> <<>>, seen |-> <<>>, b |-> b]
        ELSE Some(ReadCStr(b, <<>>, <<>>))

\* the FHCRC field, but with only its first byte checked
ReadHcrcLowByte(b, flg, before) ==
    LET Stored(l) ==
            IF l.kind # "ok" THEN [kind |-> l.kind, b |-> l.b]
            ELSE IF Crc32(before).lo % 256 # l.bytes[1]
              THEN [kind |-> "Corrupt", b |-> l.b]
            ELSE [kind |-> "ok", b |-> l.b]
    IN  IF ~HasFlag(flg, FHCRC) THEN [kind |-> "ok", b |-> b]
        ELSE Stored(ReadExact(b, 2, <<>>))

\* the FHCRC field, checked against the CRC of every header byte before it
ReadHcrc(b, flg, before) ==
    LET Stored(l) ==
            IF l.kind # "ok" THEN [kind |-> l.kind, b |-> l.b]
            ELSE IF Crc32(before).lo # l.bytes[1] + 256 * l.bytes[2]
              THEN [kind |-> "Corrupt", b |-> l.b]
            ELSE [kind |-> "ok", b |-> l.b]
    IN  IF ~HasFlag(flg, FHCRC) THEN [kind |-> "ok", b |-> b]
        ELSE Stored(ReadExact(b, 2, <<>>))

ReadGzHeader(b0) ==
    LET Hcrc(f, x, nm, cm, h) ==
            IF h.kind # "ok" THEN HdrFail(h.kind, h.b)
            ELSE [kind |-> "ok",
                  hdr |-> <<GzHeader(x.val, nm.val, cm.val, f.bytes[10],
                                     FromLE(f.bytes[5], f.bytes[6], f.bytes[7], f.bytes[8]))>>,
                  b |-> h.b]
        Comment(f, x, nm, cm) ==
            IF cm.kind # "ok" THEN HdrFail(cm.kind, cm.b)
            ELSE Hcrc(f, x, nm, cm,
                      ReadHcrc(cm.b, f.bytes[4], f.bytes \o x.seen \o nm.seen \o cm.seen))
        Filename(f, x, nm) ==
            IF nm.kind # "ok" THEN HdrFail(nm.kind, nm.b)
            ELSE Comment(f, x, nm, ReadText(nm.b, f.bytes[4], FCOMMENT))
        Extra(f, x) ==
            IF x.kind # "ok" THEN HdrFail(x.kind, x.b)
            ELSE Filename(f, x, ReadText(x.b, f.bytes[4], FNAME))
        Fixed(f) ==
            IF f.kind # "ok" THEN HdrFail(f.kind, f.b)
            ELSE IF f.bytes[1] # 31 \/ f.bytes[2] # 139 THEN HdrFail("BadHeader", f.b)
            ELSE IF f.bytes[3] # 8 THEN HdrFail("BadHeader", f.b)
            ELSE Extra(f, ReadExtra(f.b, f.bytes[4]))
    IN  Fixed(ReadExact(b0, 10, <<>>))

(***************************************************************************)
(* The deflate codec, an external collaborator, as a literal coding: each  *)
(* plaintext byte b is coded as 1, b and the stream ends with 0 (so the    *)
(* coding of the empty plaintext is one byte long).  The decompressor      *)
(* state z is "tag" (a marker is next), "lit" (a literal is next), "end"   *)
(* (the end marker was taken) or "bad" (a marker was neither 0 nor 1).     *)
(***************************************************************************)
RECURSIVE Deflate(_)
Deflate(plain) ==
    IF plain = <<>> THEN <<0>> ELSE <<1, Head(plain)>> \o Deflate(Tail(plain))

\* one run of the decompressor over input with room for cap bytes
RECURSIVE InflateRun(_, _, _, _, _)
InflateRun(z, input, cap, used, produced) ==
    IF z \in {"end", "bad"} \/ input = <<>>
      THEN [z |-> z, used |-> used, bytes |-> produced]
    ELSE IF z = "tag"
      THEN InflateRun(CASE Head(input) = 1 -> "lit"
                        [] Head(input) = 0 -> "end"
                        [] OTHER -> "bad",
                      Tail(input), cap, used + 1, produced)
    ELSE IF Len(produced) < cap
      THEN InflateRun("tag", Tail(input), cap, used + 1, produced \o <<Head(input)>>)
    ELSE [z |-> z, used |-> used, bytes |-> produced]

\* DeflateDecoder::read: fill_buf, run, consume, until there is output, the
\* stream has ended or the source has; a source that ends inside the body
\* is a deflate error
RECURSIVE InflateRead(_, _, _)
InflateRead(z, s, cap) ==
    LET Ran(fb, run, s1) ==
            IF run.z = "bad" \/ (fb.bytes = <<>> /\ run.z # "end")
              THEN [kind |-> "Deflate", bytes |-> <<>>, z |-> run.z, s |-> s1]
            ELSE IF run.bytes = <<>> /\ run.z # "end" /\ cap > 0
              THEN InflateRead(run.z, s1, cap)
            ELSE [kind |-> "ok", bytes |-> run.bytes, z |-> run.z, s |-> s1]
        Run(fb, run) == Ran(fb, run, SrcConsume(s, run.used))
        Filled(fb) ==
            IF fb.kind # "ok" THEN [kind |-> fb.kind, bytes |-> <<>>, z |-> z, s |-> fb.s]
            ELSE Run(fb, InflateRun(z, fb.bytes, cap, 0, <<>>))
    IN  Filled(SrcFillBuf(s))

\* CrcReader<DeflateDecoder<R>>::read
ReaderRead(reader, s, cap) ==
    LET Counted(rr) ==
            [kind |-> rr.kind, bytes |-> rr.bytes, s |-> rr.s,
             reader |-> [z |-> rr.z,
                         crc |-> IF rr.kind = "ok" THEN CrcUpdate(reader.crc, rr.bytes)
                                 ELSE reader.crc]]
    IN  Counted(InflateRead(reader.z, s, cap))

ReaderNew == [crc |-> CrcNew, z |-> "tag"]

(***************************************************************************)
(* GzDecoder.  A decoder d is [inner, header, reader, multi, r]: the       *)
(* GzState, the stored header, CrcReader<DeflateDecoder<R>> without its R, *)
(* the multi flag and the underlying source R.  It also carries the        *)
(* history of the call in progress: mstart, how many source bytes were     *)
(* consumed before the current member, path, the GzStates the call has     *)
(* passed, done8, the trailers the call has completed, each with the       *)
(* checksum at that moment, entry, the decoder as it was when the arm last *)
(* matched was entered, resets, what Next::Header found each time, and     *)
(* hends, where the source stood each time a header was parsed.            *)
(***************************************************************************)
StHeader(buf) == [tag |-> "Header", buf |-> buf, pos |-> 0, err |-> "none"]
StBody == [tag |-> "Body", buf |-> <<>>, pos |-> 0, err |-> "none"]
StFinished(pos, buf) == [tag |-> "Finished", buf |-> buf, pos |-> pos, err |-> "none"]
StErr(err) == [tag |-> "Err", buf |-> <<>>, pos |-> 0, err |-> err]
StEnd == [tag |-> "End", buf |-> <<>>, pos |-> 0, err |-> "none"]

Short(kind) == kind = "WouldBlock" \/ kind = "UnexpectedEof"

\* GzDecoder::new, with multi(flag) applied
GzDecoderNew(r, flag) ==
    LET Built(result) ==
            [inner |-> IF result.kind = "ok" THEN StBody
                       ELSE IF Short(result.kind) THEN StHeader(result.b.buf)
                       ELSE StErr(result.kind),
             header |-> result.hdr,
             reader |-> ReaderNew,
             multi |-> flag,
             r |-> result.b.r,
             mstart |-> 0, path |-> <<>>, done8 |-> <<>>, entry |-> <<>>,
             resets |-> <<>>, hends |-> <<>>]
    IN  Built(ReadGzHeader(BufferNew(<<>>, r)))

Header(d) == d.header

\* the trailer's zeroed array, and a write of bytes at pos
Zero8 == <<0, 0, 0, 0, 0, 0, 0, 0>>

Patch(arr, pos, bytes) ==
    [i \in 1..Len(arr) |->
        IF i > pos /\ i <= pos + Len(bytes) THEN bytes[i - pos] ELSE arr[i]]

Finish(buf) ==
    [crc |-> FromLE(buf[1], buf[2], buf[3], buf[4]),
     amt |-> FromLE(buf[5], buf[6], buf[7], buf[8])]

NextOf(t) == [t |-> t, err |-> "none"]
NextErr(err) == [t |-> "Err", err |-> err]

Continue(d, next) == [d |-> d, next |-> next, ret |-> <<>>]
Return(d, res) == [d |-> d, next |-> NextOf("None"), ret |-> <<res>>]
Ok(bytes) == [kind |-> "ok", n |-> Len(bytes), bytes |-> bytes, err |-> "none"]
Err(err) == [kind |-> "err", n |-> 0, bytes |-> <<>>, err |-> err]

\* GzState::Header(buf), but with the bytes of a short attempt thrown away
HeaderArmForget(d) ==
    LET Parsed(result, d1) ==
            IF result.kind = "ok"
              THEN Continue([d1 EXCEPT !.header = result.hdr,
                                       !.hends = Append(@, [mstart |-> d1.mstart,
                                                            taken |-> d1.r.taken])],
                            NextOf("Body"))
            ELSE IF Short(result.kind) THEN Return(d1, Err("WouldBlock"))
            ELSE Continue(d1, NextErr(result.kind))
        Kept(result) ==
            Parsed(result, [d EXCEPT !.r = result.b.r, !.inner = StHeader(<<>>)])
    IN  Kept(ReadGzHeader(BufferNew(d.inner.buf, d.r)))

\* GzState::Header(buf)
HeaderArm(d) ==
    LET Parsed(result, d1) ==
            IF result.kind = "ok"
              THEN Continue([d1 EXCEPT !.header = result.hdr,
                                       !.hends = Append(@, [mstart |-> d1.mstart,
                                                            taken |-> d1.r.taken])],
                            NextOf("Body"))
            ELSE IF Short(result.kind) THEN Return(d1, Err("WouldBlock"))
            ELSE Continue(d1, NextErr(result.kind))
        Kept(result) ==
            Parsed(result, [d EXCEPT !.r = result.b.r, !.inner = StHeader(result.b.buf)])
    IN  Kept(ReadGzHeader(BufferNew(d.inner.buf, d.r)))

\* GzState::Body, but with would-block reported as a read of 0 bytes
BodyArmSwallow(d, cap) ==
    LET Got(rr, d1) ==
            IF rr.kind = "WouldBlock" THEN Return(d1, Ok(<<>>))
            ELSE IF rr.kind # "ok" THEN Return(d1, Err(rr.kind))
            ELSE IF rr.bytes = <<>> THEN Continue(d1, NextOf("Finished"))
            ELSE Return(d1, Ok(rr.bytes))
        Kept(rr) == Got(rr, [d EXCEPT !.reader = rr.reader, !.r = rr.s])
    IN  IF cap = 0 THEN Return(d, Ok(<<>>))
        ELSE Kept(ReaderRead(d.reader, d.r, cap))

\* GzState::Body, but ending without the trailer
BodyArmSkipTrailer(d, cap) ==
    LET Got(rr, d1) ==
            IF rr.kind # "ok" THEN Return(d1, Err(rr.kind))
            ELSE IF rr.bytes = <<>> THEN Continue(d1, NextOf("End"))
            ELSE Return(d1, Ok(rr.bytes))
        Kept(rr) == Got(rr, [d EXCEPT !.reader = rr.reader, !.r = rr.s])
    IN  IF cap = 0 THEN Return(d, Ok(<<>>))
        ELSE Kept(ReaderRead(d.reader, d.r, cap))

\* GzState::Body
BodyArm(d, cap) ==
    LET Got(rr, d1) ==
            IF rr.kind # "ok" THEN Return(d1, Err(rr.kind))
            ELSE IF rr.bytes = <<>> THEN Continue(d1, NextOf("Finished"))
            ELSE Return(d1, Ok(rr.bytes))
        Kept(rr) == Got(rr, [d EXCEPT !.reader = rr.reader, !.r = rr.s])
    IN  IF cap = 0 THEN Return(d, Ok(<<>>))
        ELSE Kept(ReaderRead(d.reader, d.r, cap))

\* GzState::Finished(pos, buf) with pos < buf.len(), but starting the
\* trailer again after would-block
TrailerArmRestart(d) ==
    LET Filled(d1, buf, pos) ==
            Continue([d1 EXCEPT
                        !.inner = StFinished(pos, buf),
                        !.done8 = IF pos = 8
                                    THEN Append(@, [buf |-> buf, crc |-> d.reader.crc])
                                    ELSE @],
                     NextOf("None"))
        Got(rr, d1) ==
            IF rr.kind = "ok"
              THEN IF rr.bytes = <<>> THEN Continue(d1, NextErr("UnexpectedEof"))
                   ELSE Filled(d1, Patch(d.inner.buf, d.inner.pos, rr.bytes),
                               d.inner.pos + Len(rr.bytes))
            ELSE IF rr.kind = "WouldBlock"
              THEN Return([d1 EXCEPT !.inner = StFinished(0, Zero8)], Err(rr.kind))
            ELSE Continue(d1, NextErr(rr.kind))
        Kept(rr) == Got(rr, [d EXCEPT !.r = rr.s])
    IN  Kept(SrcRead(d.r, 8 - d.inner.pos))

\* GzState::Finished(pos, buf) with pos < buf.len(), but ending quietly
\* when the source has no more bytes
TrailerArmEofEnds(d) ==
    LET Filled(d1, buf, pos) ==
            Continue([d1 EXCEPT
                        !.inner = StFinished(pos, buf),
                        !.done8 = IF pos = 8
                                    THEN Append(@, [buf |-> buf, crc |-> d.reader.crc])
                                    ELSE @],
                     NextOf("None"))
        Got(rr, d1) ==
            IF rr.kind = "ok"
              THEN IF rr.bytes = <<>> THEN Continue(d1, NextOf("End"))
                   ELSE Filled(d1, Patch(d.inner.buf, d.inner.pos, rr.bytes),
                               d.inner.pos + Len(rr.bytes))
            ELSE IF rr.kind = "WouldBlock" THEN Return(d1, Err(rr.kind))
            ELSE Continue(d1, NextErr(rr.kind))
        Kept(rr) == Got(rr, [d EXCEPT !.r = rr.s])
    IN  Kept(SrcRead(d.r, 8 - d.inner.pos))

\* GzState::Finished(pos, buf) with pos < buf.len()
TrailerArm(d) ==
    LET Filled(d1, buf, pos) ==
            Continue([d1 EXCEPT
                        !.inner = StFinished(pos, buf),
                        !.done8 = IF pos = 8
                                    THEN Append(@, [buf |-> buf, crc |-> d.reader.crc])
                                    ELSE @],
                     NextOf("None"))
        Got(rr, d1) ==
            IF rr.kind = "ok"
              THEN IF rr.bytes = <<>> THEN Continue(d1, NextErr("UnexpectedEof"))
                   ELSE Filled(d1, Patch(d.inner.buf, d.inner.pos, rr.bytes),
                               d.inner.pos + Len(rr.bytes))
            ELSE IF rr.kind = "WouldBlock" THEN Return(d1, Err(rr.kind))
            ELSE Continue(d1, NextErr(rr.kind))
        Kept(rr) == Got(rr, [d EXCEPT !.r = rr.s])
    IN  Kept(SrcRead(d.r, 8 - d.inner.pos))

\* GzState::Finished(pos, buf) with pos = buf.len(), but with ISIZE unchecked
CheckArmCrcOnly(d) ==
    LET Peeked(fb, d1) ==
            IF fb.kind = "ok"
              THEN IF fb.bytes = <<>> THEN Continue(d1, NextOf("End"))
                   ELSE Continue(d1, NextOf("Header"))
            ELSE IF fb.kind = "WouldBlock" THEN Return(d1, Err(fb.kind))
            ELSE Continue(d1, NextErr(fb.kind))
        Kept(fb) == Peeked(fb, [d EXCEPT !.r = fb.s])
        Parsed(f) ==
            IF f.crc # d.reader.crc.sum THEN Continue(d, NextErr("Corrupt"))
            ELSE IF ~d.multi THEN Continue(d, NextOf("End"))
            ELSE Kept(SrcFillBuf(d.r))
    IN  Parsed(Finish(d.inner.buf))

\* GzState::Finished(pos, buf) with pos = buf.len(), but looking for another
\* member whatever multi is
CheckArmIgnoreMulti(d) ==
    LET Peeked(fb, d1) ==
            IF fb.kind = "ok"
              THEN IF fb.bytes = <<>> THEN Continue(d1, NextOf("End"))
                   ELSE Continue(d1, NextOf("Header"))
            ELSE IF fb.kind = "WouldBlock" THEN Return(d1, Err(fb.kind))
            ELSE Continue(d1, NextErr(fb.kind))
        Kept(fb) == Peeked(fb, [d EXCEPT !.r = fb.s])
        Parsed(f) ==
            IF f.crc # d.reader.crc.sum THEN Continue(d, NextErr("Corrupt"))
            ELSE IF f.amt # d.reader.crc.amt THEN Continue(d, NextErr("Corrupt"))
            ELSE Kept(SrcFillBuf(d.r))
    IN  Parsed(Finish(d.inner.buf))

\* GzState::Finished(pos, buf) with pos = buf.len()
CheckArm(d) ==
    LET Peeked(fb, d1) ==
            IF fb.kind = "ok"
              THEN IF fb.bytes = <<>> THEN Continue(d1, NextOf("End"))
                   ELSE Continue(d1, NextOf("Header"))
            ELSE IF fb.kind = "WouldBlock" THEN Return(d1, Err(fb.kind))
            ELSE Continue(d1, NextErr(fb.kind))
        Kept(fb) == Peeked(fb, [d EXCEPT !.r = fb.s])
        Parsed(f) ==
            IF f.crc # d.reader.crc.sum THEN Continue(d, NextErr("Corrupt"))
            ELSE IF f.amt # d.reader.crc.amt THEN Continue(d, NextErr("Corrupt"))
            ELSE IF ~d.multi THEN Continue(d, NextOf("End"))
            ELSE Kept(SrcFillBuf(d.r))
    IN  Parsed(Finish(d.inner.buf))

FinishedArm(d) == IF d.inner.pos < 8 THEN TrailerArm(d) ELSE CheckArm(d)

\* GzState::Err(err)
ErrArm(d) == Continue([d EXCEPT !.inner = StErr("Other")], NextErr(d.inner.err))

\* GzState::End
EndArm(d) == Return(d, Ok(<<>>))

Arm(d, cap) ==
    CASE d.inner.tag = "Header" -> HeaderArm(d)
      [] d.inner.tag = "Body" -> BodyArm(d, cap)
      [] d.inner.tag = "Finished" -> FinishedArm(d)
      [] d.inner.tag = "Err" -> ErrArm(d)
      [] d.inner.tag = "End" -> EndArm(d)

\* what Next::Header finds: the state it leaves, the multi flag, how many
\* bytes the source has ready, and the checksum
Found(d) ==
    [inner |-> d.inner, multi |-> d.multi, ready |-> Min(d.r.avail, Len(d.r.data)),
     crc |-> d.reader.crc]

\* Next::Header, but keeping the checksum
NextHeaderKeepCrc(d) ==
    [d EXCEPT !.reader = [crc |-> @.crc, z |-> "tag"], !.header = <<>>,
              !.inner = StHeader(<<>>), !.mstart = d.r.taken,
              !.resets = Append(@, Found(d))]

\* Next::Header, but keeping the stored header
NextHeaderKeepHeader(d) ==
    [d EXCEPT !.reader = ReaderNew, !.inner = StHeader(<<>>), !.mstart = d.r.taken,
              !.resets = Append(@, Found(d))]

\* Next::Header
NextHeader(d) ==
    [d EXCEPT !.reader = ReaderNew, !.header = <<>>,
              !.inner = StHeader(<<>>), !.mstart = d.r.taken,
              !.resets = Append(@, Found(d))]

\* the match on next that ends an iteration of the loop of read
ApplyNext(d, next) ==
    CASE next.t = "None" -> [d |-> d, ret |-> <<>>]
      [] next.t = "Header" -> [d |-> NextHeader(d), ret |-> <<>>]
      [] next.t = "Body" -> [d |-> [d EXCEPT !.inner = StBody], ret |-> <<>>]
      [] next.t = "Finished" -> [d |-> [d EXCEPT !.inner = StFinished(0, Zero8)], ret |-> <<>>]
      [] next.t = "Err" -> [d |-> [d EXCEPT !.inner = StEnd], ret |-> <<Err(next.err)>>]
      [] next.t = "End" -> [d |-> [d EXCEPT !.inner = StEnd], ret |-> <<>>]

\* what a decoder holds besides the header replay buffer: the state variant,
\* the trailer position and bytes, the stored header and the checksum
Snap(d) ==
    [tag |-> d.inner.tag, pos |-> d.inner.pos,
     trailer |-> IF d.inner.tag = "Finished" THEN d.inner.buf ELSE <<>>,
     header |-> d.header, crc |-> d.reader.crc]

\* <GzDecoder as Read>::read
RECURSIVE ReadLoop(_, _)
ReadLoop(d, cap) ==
    LET Moved(n, d2) ==
            IF n.ret # <<>> THEN [d |-> d2, ret |-> n.ret[1]]
            ELSE ReadLoop(d2, cap)
        Applied(a, n) ==
            Moved(n, [n.d EXCEPT !.path = IF a.next.t = "None" THEN @
                                          ELSE Append(@, n.d.inner.tag)])
        Matched(a) ==
            IF a.ret # <<>> THEN [d |-> a.d, ret |-> a.ret[1]]
            ELSE Applied(a, ApplyNext(a.d, a.next))
    IN  Matched(Arm([d EXCEPT !.entry = Snap(d)], cap))

GzRead(d, cap) ==
    ReadLoop([d EXCEPT !.path = <<>>, !.done8 = <<>>, !.resets = <<>>, !.hends = <<>>], cap)

(***************************************************************************)
(* GzEncoder.  An encoder e is [inner, header, pos, eof, r]: inner is the  *)
(* DeflateEncoder<CrcReader<R>> without its R, [crc, pend, z], where pend  *)
(* is the compressed output it holds (at most ZBuf bytes) and z is "run"   *)
(* or, once the end marker is written, "end"; r is the plaintext source    *)
(* [data, err, faults].                                                    *)
(***************************************************************************)
ZBuf == 2

\* copy, but always from the start of from
CopyFromStart(cap, from, pos) ==
    LET min == Min(cap, Len(from) - pos)
    IN  [bytes |-> SubSeq(from, 1, min), pos |-> pos + min]

\* copy: the bytes written into a destination of cap bytes, and the new pos
Copy(cap, from, pos) ==
    LET min == Min(cap, Len(from) - pos)
    IN  [bytes |-> SubSeq(from, pos + 1, pos + min), pos |-> pos + min]

\* the array read_footer builds
Footer(crc) ==
    <<ByteOf(crc.sum, 0), ByteOf(crc.sum, 1), ByteOf(crc.sum, 2), ByteOf(crc.sum, 3),
      ByteOf(crc.amt, 0), ByteOf(crc.amt, 1), ByteOf(crc.amt, 2), ByteOf(crc.amt, 3)>>

\* GzEncoder::read_footer: the bytes written and the encoder after
ReadFooter(e, cap) ==
    LET Copied(c) == [e |-> [e EXCEPT !.pos = c.pos], bytes |-> c.bytes]
    IN  IF e.pos = 8 THEN [e |-> e, bytes |-> <<>>]
        ELSE Copied(Copy(cap, Footer(e.inner.crc), e.pos))

\* the compressor takes plaintext while pend has room for its coding
RECURSIVE DeflateTake(_, _, _)
DeflateTake(pend, input, used) ==
    IF input = <<>> \/ Len(pend) + 2 > ZBuf THEN [pend |-> pend, used |-> used]
    ELSE DeflateTake(pend \o <<1, Head(input)>>, Tail(input), used + 1)

\* DeflateEncoder::read over CrcReader<R>: with no room in the destination
\* the compressor takes nothing and the call returns 0
DeflateRead(inner, r, cap) ==
    LET Given(t, finish, pend, n) ==
            [kind |-> "ok", bytes |-> Take(pend, n),
             inner |-> [crc |-> CrcUpdate(inner.crc, Take(r.data, t.used)),
                        pend |-> Drop(pend, n),
                        z |-> IF finish THEN "end" ELSE inner.z],
             r |-> [r EXCEPT !.data = Drop(r.data, t.used)]]
        Ended(t, finish, pend) == Given(t, finish, pend, Min(cap, Len(pend)))
        Held(t, finish) == Ended(t, finish, IF finish THEN t.pend \o <<0>> ELSE t.pend)
        Taken(t) == Held(t, r.data = <<>> /\ inner.z = "run" /\ Len(t.pend) < ZBuf)
    IN  IF r.err # "none"
          THEN [kind |-> r.err, bytes |-> <<>>, inner |-> inner,
                r |-> [r EXCEPT !.err = "none"]]
        ELSE IF cap = 0
          THEN [kind |-> "ok", bytes |-> <<>>, inner |-> inner, r |-> r]
        ELSE Taken(DeflateTake(inner.pend, r.data, 0))

gz_encoder(header, r) ==
    [inner |-> [crc |-> CrcNew, pend |-> <<>>, z |-> "run"],
     header |-> header, pos |-> 0, eof |-> FALSE, r |-> r]

\* the match on self.inner.read(into)?, after amt header bytes were copied:
\* dst is everything the call wrote into the destination, in order
EncBodyDropAmt(e, cap, hdr) ==
    LET Trailer(f) ==
            [e |-> f.e, kind |-> "ok", err |-> "none", n |-> Len(f.bytes),
             dst |-> hdr \o f.bytes, tr |-> f.bytes]
        Got(rr, e1) ==
            IF rr.kind # "ok"
              THEN [e |-> e1, kind |-> "err", err |-> rr.kind, n |-> 0, dst |-> hdr,
                    tr |-> <<>>]
            ELSE IF rr.bytes = <<>>
              THEN Trailer(ReadFooter([e1 EXCEPT !.eof = TRUE, !.pos = 0], cap))
            ELSE [e |-> e1, kind |-> "ok", err |-> "none", n |-> Len(rr.bytes),
                  dst |-> hdr \o rr.bytes, tr |-> <<>>]
        Kept(rr) == Got(rr, [e EXCEPT !.inner = rr.inner, !.r = rr.r])
    IN  Kept(DeflateRead(e.inner, e.r, cap))

\* the same match, but without the reset of pos at the end of the body
EncBodyNoReset(e, cap, hdr) ==
    LET Trailer(f) ==
            [e |-> f.e, kind |-> "ok", err |-> "none", n |-> Len(f.bytes),
             dst |-> hdr \o f.bytes, tr |-> f.bytes]
        Got(rr, e1) ==
            IF rr.kind # "ok"
              THEN [e |-> e1, kind |-> "err", err |-> rr.kind, n |-> 0, dst |-> hdr,
                    tr |-> <<>>]
            ELSE IF rr.bytes = <<>>
              THEN Trailer(ReadFooter([e1 EXCEPT !.eof = TRUE], cap))
            ELSE [e |-> e1, kind |-> "ok", err |-> "none", n |-> Len(hdr) + Len(rr.bytes),
                  dst |-> hdr \o rr.bytes, tr |-> <<>>]
        Kept(rr) == Got(rr, [e EXCEPT !.inner = rr.inner, !.r = rr.r])
    IN  Kept(DeflateRead(e.inner, e.r, cap))

EncBody(e, cap, hdr) ==
    LET Trailer(f) ==
            [e |-> f.e, kind |-> "ok", err |-> "none", n |-> Len(f.bytes),
             dst |-> hdr \o f.bytes, tr |-> f.bytes]
        Got(rr, e1) ==
            IF rr.kind # "ok"
              THEN [e |-> e1, kind |-> "err", err |-> rr.kind, n |-> 0, dst |-> hdr,
                    tr |-> <<>>]
            ELSE IF rr.bytes = <<>>
              THEN Trailer(ReadFooter([e1 EXCEPT !.eof = TRUE, !.pos = 0], cap))
            ELSE [e |-> e1, kind |-> "ok", err |-> "none", n |-> Len(hdr) + Len(rr.bytes),
                  dst |-> hdr \o rr.bytes, tr |-> <<>>]
        Kept(rr) == Got(rr, [e EXCEPT !.inner = rr.inner, !.r = rr.r])
    IN  Kept(DeflateRead(e.inner, e.r, cap))

\* <GzEncoder as Read>::read
EncRead(e, cap) ==
    LET Trailer(f) ==
            [e |-> f.e, kind |-> "ok", err |-> "none", n |-> Len(f.bytes), dst |-> f.bytes,
             tr |-> f.bytes]
        Hdr(c, e1) ==
            IF Len(c.bytes) = cap
              THEN [e |-> e1, kind |-> "ok", err |-> "none", n |-> Len(c.bytes),
                    dst |-> c.bytes, tr |-> <<>>]
            ELSE EncBody(e1, cap - Len(c.bytes), c.bytes)
        Copied(c) == Hdr(c, [e EXCEPT !.pos = c.pos])
    IN  IF e.eof THEN Trailer(ReadFooter(e, cap))
        ELSE IF e.pos < Len(e.header) THEN Copied(Copy(cap, e.header, e.pos))
        ELSE EncBody(e, cap, <<>>)

(***************************************************************************)
(* Inputs.  A header description h is a GzHeader with the hcrc choice; a   *)
(* member is [h, plain]; a scenario is a sequence of members with one byte *)
(* changed (at > 0) or its last cut bytes missing.                         *)
(***************************************************************************)
Flg(h) ==
    (IF h.hcrc THEN FHCRC ELSE 0) + (IF h.extra # <<>> THEN FEXTRA ELSE 0)
      + (IF h.filename # <<>> THEN FNAME ELSE 0)
      + (IF h.comment # <<>> THEN FCOMMENT ELSE 0)

HdrBytes(h) ==
    LET fixed == <<31, 139, 8, Flg(h), ByteOf(h.mtime, 0), ByteOf(h.mtime, 1),
                   ByteOf(h.mtime, 2), ByteOf(h.mtime, 3), 0, h.operating_system>>
        extra == IF h.extra = <<>> THEN <<>>
                 ELSE <<Len(h.extra[1]) % 256, Len(h.extra[1]) \div 256>> \o h.extra[1]
        name == IF h.filename = <<>> THEN <<>> ELSE h.filename[1] \o <<0>>
        comment == IF h.comment = <<>> THEN <<>> ELSE h.comment[1] \o <<0>>
        Summed(all, sum) == all \o <<sum % 256, sum \div 256>>
        Joined(all) == IF h.hcrc THEN Summed(all, Crc32(all).lo) ELSE all
    IN  Joined(fixed \o extra \o name \o comment)

MemberBytes(m) ==
    HdrBytes(m.h) \o Deflate(m.plain) \o Footer(CrcUpdate(CrcNew, m.plain))

RECURSIVE StreamBytes(_)
StreamBytes(ms) ==
    IF ms = <<>> THEN <<>> ELSE MemberBytes(Head(ms)) \o StreamBytes(Tail(ms))

InputOf(sc) ==
    LET Hit(all) ==
            [i \in 1..(Len(all) - sc.cut) |->
                IF i = sc.at THEN (all[i] + 1) % 256 ELSE all[i]]
    IN  Hit(StreamBytes(sc.members))

H0 == [extra |-> <<>>, filename |-> <<>>, comment |-> <<>>,
       operating_system |-> 255, mtime |-> Zero32, hcrc |-> FALSE]
H1 == [extra |-> <<>>, filename |-> << <<97>> >>, comment |-> <<>>,
       operating_system |-> 3, mtime |-> U32(258, 772), hcrc |-> TRUE]
H2 == [extra |-> << <<5>> >>, filename |-> <<>>, comment |-> << <<>> >>,
       operating_system |-> 3, mtime |-> Zero32, hcrc |-> FALSE]

M0 == [h |-> H0, plain |-> <<>>]
M1 == [h |-> H0, plain |-> <<97>>]
M2 == [h |-> H1, plain |-> <<98, 99>>]
M3 == [h |-> H2, plain |-> <<100>>]

Sc(members, at, cut) == [members |-> members, at |-> at, cut |-> cut]

One == StreamBytes(<<M1>>)

Scenarios ==
    { Sc(<<M0>>, 0, 0), Sc(<<M1>>, 0, 0), Sc(<<M2>>, 0, 0),
      Sc(<<M1, M3>>, 0, 0), Sc(<<M0, M1>>, 0, 0),
      Sc(<<M1>>, Len(One) - 7, 0),      \* trailer CRC wrong
      Sc(<<M1>>, Len(One), 0),          \* trailer ISIZE wrong
      Sc(<<M1>>, Len(HdrBytes(H0)) + 1, 0),   \* first deflate marker wrong
      Sc(<<M1>>, 0, 3),                 \* trailer cut short
      Sc(<<M1>>, 0, 9),                 \* body cut short
      Sc(<<M1>>, 1, 0),                 \* magic wrong
      Sc(<<M1, M1>>, Len(One) + 2, 0),  \* magic of the second member wrong
      Sc(<<M1>>, 0, Len(One) - 5),      \* header cut short
      Sc(<<M1, M1>>, 0, Len(One) - 5) } \* header of the second member cut short

Valid(sc) == sc.at = 0 /\ sc.cut = 0

Plains(sc) == [i \in 1..Len(sc.members) |-> sc.members[i].plain]

Headers(sc) ==
    [i \in 1..Len(sc.members) |->
        LET h == sc.members[i].h
        IN  GzHeader(h.extra, h.filename, h.comment, h.operating_system, h.mtime)]

(***************************************************************************)
(* State.  The decoder's fields are inner, header, reader and multi, with  *)
(* its source r; mstart is how many source bytes were consumed before the  *)
(* current member.  What the decoder's caller has seen: scen, the          *)
(* scenario, and input, its bytes; out, the plaintext delivered; last,     *)
(* the last read (its                                                      *)
(* destination size cap, the GzState pre it began in, the source's pending *)
(* error src, its result, the path, done8, entry, resets and hends of the  *)
(* call,                                                                   *)
(* begin,                                                                  *)
(* the decoder as the call found it, and took, how many source bytes it    *)
(* consumed); hist, what                                                   *)
(* has happened so far: zero, a read returned 0; ended, a read with a      *)
(* non-empty destination returned 0; blocked, a read returned would-block; *)
(* parsed, how many headers were parsed; members, how many members were    *)
(* begun; fatal, how many reads returned an error other than would-block   *)
(* (counted up to 2).                                                      *)
(*                                                                         *)
(* The encoder is enc, with its plaintext source enc.r.  What its caller   *)
(* has seen: plain, the whole plaintext; sent, the bytes the successful    *)
(* reads reported; trail, the bytes read_footer wrote; elast, the last     *)
(* read; ehist, what has happened so far: emptied, a read had an empty     *)
(* destination; failed, a read returned an error.                          *)
(*                                                                         *)
(* read_gz_header on its own: hin is the input it is given and hres, once  *)
(* it has been called, what it returned.                                   *)
(***************************************************************************)
VARIABLES inner, header, reader, multi, r, mstart, scen, input, out, last, hist,
          enc, plain, sent, trail, elast, ehist, hin, hres

dvars == <<inner, header, reader, multi, r, mstart, scen, input, out, last, hist>>

evars == <<enc, plain, sent, trail, elast, ehist>>

hvars == <<hin, hres>>

vars == <<dvars, evars, hvars>>

MaxFaults == 1

Dec ==
    [inner |-> inner, header |-> header, reader |-> reader, multi |-> multi,
     r |-> r, mstart |-> mstart, path |-> <<>>, done8 |-> <<>>, entry |-> <<>>,
     resets |-> <<>>, hends |-> <<>>]

SetDec(d) ==
    /\ inner' = d.inner
    /\ header' = d.header
    /\ reader' = d.reader
    /\ multi' = d.multi
    /\ r' = d.r
    /\ mstart' = d.mstart

NoRead ==
    [cap |-> 0, pre |-> "none", src |-> "none", kind |-> "none", n |-> 0, err |-> "none",
     path |-> <<>>, done8 |-> <<>>, begin |-> <<>>, entry |-> <<>>, took |-> 0,
     resets |-> <<>>, hends |-> <<>>]

NoEnc == [inner |-> <<>>, header |-> <<>>, pos |-> 0, eof |-> FALSE, r |-> <<>>]

NoEncRead ==
    [cap |-> 0, eof |-> FALSE, pos |-> 0, kind |-> "none", n |-> 0, err |-> "none",
     dst |-> <<>>]

NoEhist == [emptied |-> FALSE, failed |-> FALSE]

\* how many times tag occurs in path
Count(path, tag) == Cardinality({i \in 1..Len(path) : path[i] = tag})

EncIdle ==
    /\ enc = NoEnc
    /\ plain = <<>>
    /\ sent = <<>>
    /\ trail = <<>>
    /\ elast = NoEncRead
    /\ ehist = NoEhist

HdrIdle ==
    /\ hin = <<>>
    /\ hres = <<>>

DecIdle ==
    /\ inner = StEnd
    /\ header = <<>>
    /\ reader = ReaderNew
    /\ multi = FALSE
    /\ r = <<>>
    /\ mstart = 0
    /\ scen = <<>>
    /\ input = <<>>
    /\ out = <<>>
    /\ last = NoRead
    /\ hist = <<>>

\* a decoder fresh from GzDecoder::new (or MultiGzDecoder::new) over a
\* source holding a scenario's bytes, a of them ready
Created(sc, bytes, d) ==
    /\ inner = d.inner
    /\ header = d.header
    /\ reader = d.reader
    /\ multi = d.multi
    /\ r = d.r
    /\ mstart = d.mstart
    /\ scen = sc
    /\ input = bytes
    /\ out = <<>>
    /\ last = NoRead
    /\ hist = [zero |-> FALSE, ended |-> FALSE, blocked |-> FALSE,
               parsed |-> IF d.inner.tag = "Body" THEN 1 ELSE 0, members |-> 1,
               fatal |-> 0]

Source(bytes, a, faults) ==
    [data |-> bytes, avail |-> a, err |-> "none", taken |-> 0, faults |-> faults]

Opened(sc, flag, bytes, faults) ==
    \E a \in {0, Min(3, Len(bytes)), Len(bytes)} :
      Created(sc, bytes, GzDecoderNew(Source(bytes, a, faults), flag))

InitDec ==
    /\ \E sc \in Scenarios, flag \in BOOLEAN : Opened(sc, flag, InputOf(sc), MaxFaults)
    /\ EncIdle
    /\ HdrIdle

\* the source, drained of what was ready, gets its next chunk
Arrive ==
    \E k \in 1..MaxChunk :
      /\ r.avail = 0
      /\ k <= Len(r.data)
      /\ r' = [r EXCEPT !.avail = k]
      /\ UNCHANGED <<inner, header, reader, multi, mstart, scen, input, out, last, hist, evars, hvars>>

\* the source's next call will fail
Fault ==
    \E kind \in {"Other", "UnexpectedEof"} :
      /\ r.err = "none"
      /\ r.faults > 0
      /\ r' = [r EXCEPT !.err = kind, !.faults = r.faults - 1]
      /\ UNCHANGED <<inner, header, reader, multi, mstart, scen, input, out, last, hist, evars, hvars>>

\* what a call of read with a destination of cap bytes leaves behind
Returned(cap, res) ==
    /\ SetDec(res.d)
    /\ out' = out \o res.ret.bytes
    /\ last' = [cap |-> cap, pre |-> inner.tag, src |-> r.err, kind |-> res.ret.kind,
                n |-> res.ret.n, err |-> res.ret.err,
                path |-> res.d.path, done8 |-> res.d.done8,
                begin |-> Snap(Dec), entry |-> res.d.entry,
                took |-> res.d.r.taken - r.taken, resets |-> res.d.resets,
                hends |-> res.d.hends]
    /\ hist' = [zero |-> hist.zero \/ (res.ret.kind = "ok" /\ res.ret.n = 0),
                ended |-> hist.ended \/ (res.ret.kind = "ok" /\ res.ret.n = 0 /\ cap > 0),
                blocked |-> hist.blocked \/ res.ret.err = "WouldBlock",
                parsed |-> hist.parsed + Count(res.d.path, "Body"),
                members |-> hist.members + Count(res.d.path, "Header"),
                fatal |-> IF res.ret.kind = "err" /\ res.ret.err # "WouldBlock"
                            THEN Min(2, hist.fatal + 1) ELSE hist.fatal]
    /\ UNCHANGED <<scen, input, evars, hvars>>

ReadCap(cap) == Returned(cap, GzRead(Dec, cap))

\* a call of read
Read == \E cap \in 0..MaxCap : ReadCap(cap)

NextDec == Arrive \/ Fault \/ Read

SpecDec == InitDec /\ [][NextDec]_vars

(***************************************************************************)
(* The decoder over a sound source that never fails, whose data arrives in *)
(* chunks with would-block between them, and a caller that keeps reading   *)
(* into a non-empty destination.  Such a read can always be made and       *)
(* always leaves its trace in last (two destination sizes differ), so      *)
(* <<ReadSome>>_vars is always enabled and its weak fairness,              *)
(* WF_vars(ReadSome), is []<><<ReadSome>>_vars.                            *)
(***************************************************************************)
InitRetry ==
    /\ \E sc \in {x \in Scenarios : Valid(x)}, flag \in BOOLEAN :
          Opened(sc, flag, InputOf(sc), 0)
    /\ EncIdle
    /\ HdrIdle

ReadSome == \E cap \in 1..MaxCap : ReadCap(cap)

NextRetry == Arrive \/ Read

SpecRetry ==
    InitRetry /\ [][NextRetry]_vars /\ WF_vars(Arrive) /\ []<><<ReadSome>>_vars

(***************************************************************************)
(* The encoder over a plaintext source that may fail.                      *)
(***************************************************************************)
EncPlains == {<<>>, <<97>>, <<97, 98>>, <<97, 98, 99>>}

InitEnc ==
    /\ \E p \in EncPlains, h \in {H0, H1} :
          /\ enc = gz_encoder(HdrBytes(h), [data |-> p, err |-> "none", faults |-> MaxFaults])
          /\ plain = p
    /\ sent = <<>>
    /\ trail = <<>>
    /\ elast = NoEncRead
    /\ ehist = NoEhist
    /\ DecIdle
    /\ HdrIdle

\* the plaintext source's next call will fail
EncFault ==
    \E kind \in {"WouldBlock", "Other"} :
      /\ enc.r.err = "none"
      /\ enc.r.faults > 0
      /\ enc' = [enc EXCEPT !.r.err = kind, !.r.faults = enc.r.faults - 1]
      /\ UNCHANGED <<plain, sent, trail, elast, ehist, dvars, hvars>>

\* what a call of the encoder's read with a destination of cap bytes leaves
EncReturned(cap, res) ==
    /\ enc' = res.e
    /\ sent' = IF res.kind = "ok" THEN sent \o SubSeq(res.dst, 1, res.n) ELSE sent
    /\ trail' = trail \o res.tr
    /\ elast' = [cap |-> cap, eof |-> enc.eof, pos |-> enc.pos, kind |-> res.kind,
                 n |-> res.n, err |-> res.err, dst |-> res.dst]
    /\ ehist' = [emptied |-> ehist.emptied \/ cap = 0,
                 failed |-> ehist.failed \/ res.kind = "err"]
    /\ UNCHANGED <<plain, dvars, hvars>>

\* a call of the encoder's read
EncReadCall == \E cap \in 0..MaxCap : EncReturned(cap, EncRead(enc, cap))

NextEnc == EncFault \/ EncReadCall

SpecEnc == InitEnc /\ [][NextEnc]_vars

(***************************************************************************)
(* read_gz_header over the bytes of a header, followed by the rest of a    *)
(* member.  An input is [h, res, at, bytes]: the header described by h     *)
(* with the reserved FLG bits res set (and counted in its header CRC), its *)
(* byte at changed (at > 0), and the bytes that makes.                     *)
(***************************************************************************)
H3 == [extra |-> << <<>> >>, filename |-> << <<98>> >>, comment |-> << <<99>> >>,
       operating_system |-> 0, mtime |-> Zero32, hcrc |-> TRUE]

Reserved == {0, 32, 64, 128, 224}

\* the header of h with res added to FLG
HdrBytesWith(h, res) ==
    LET Summed(all, sum) == all \o <<sum % 256, sum \div 256>>
        Joined(all) == IF h.hcrc THEN Summed(all, Crc32(all).lo) ELSE all
    IN  Joined(Patch(HdrBytes([h EXCEPT !.hcrc = FALSE]), 3, <<Flg(h) + res>>))

Rest == Deflate(<<97>>) \o Footer(CrcUpdate(CrcNew, <<97>>))

HdrInput(h, res, at) ==
    LET Hit(all) == [i \in 1..Len(all) |-> IF i = at THEN (all[i] + 1) % 256 ELSE all[i]]
    IN  [h |-> h, res |-> res, at |-> at, bytes |-> Hit(HdrBytesWith(h, res)) \o Rest]

\* read_gz_header over a Buffer with nothing to replay and a source that has
\* all of bytes ready: the result and how many bytes were read
ParseOf(bytes) ==
    LET Called(result) ==
            [kind |-> result.kind, hdr |-> result.hdr, taken |-> result.b.r.taken]
    IN  Called(ReadGzHeader(BufferNew(<<>>, Source(bytes, Len(bytes), 0))))

InitHdr ==
    /\ \E h \in {H0, H1, H2, H3}, res \in Reserved :
          \E at \in 0..Len(HdrBytesWith(h, res)) : hin = HdrInput(h, res, at)
    /\ hres = <<>>
    /\ DecIdle
    /\ EncIdle

\* the call of read_gz_header
ParseHeader ==
    /\ hres = <<>>
    /\ hres' = <<ParseOf(hin.bytes)>>
    /\ UNCHANGED <<hin, dvars, evars>>

NextHdr == ParseHeader

SpecHdr == InitHdr /\ [][NextHdr]_vars

(***************************************************************************)
(* Properties of the decoder                                               *)
(***************************************************************************)
\* the plaintext a scenario's members carry: all of it for MultiGzDecoder,
\* the first member's for GzDecoder
Expected == IF multi THEN Flatten(Plains(scen)) ELSE Plains(scen)[1]

\* the source has never failed
Sound == r.faults = MaxFaults

\* C1: multistream additivity.  Over the concatenated members of X1..Xn and
\* a source that never fails, what the decoder has delivered is always a
\* prefix of X1 ++ ... ++ Xn with multi = true and of X1 with multi = false,
\* no read fails except with would-block, and once a read into a non-empty
\* destination has returned 0 the whole of it has been delivered.
C1_Additivity ==
    (Valid(scen) /\ Sound) =>
        /\ IsPrefix(out, Expected)
        /\ (last.kind = "err" => last.err = "WouldBlock")
        /\ (hist.ended => out = Expected)

\* two members with plaintext, read to the end by MultiGzDecoder
C1_Witness ==
    /\ Valid(scen) /\ Sound /\ multi /\ hist.ended
    /\ Len(scen.members) = 2
    /\ scen.members[1].plain # <<>> /\ scen.members[2].plain # <<>>
    /\ out = scen.members[1].plain \o scen.members[2].plain

\* C2: short-read tolerance.  When the bytes of valid members arrive in
\* chunks with would-block between them and the caller keeps reading, the
\* decoder eventually has delivered exactly the plaintext and has returned 0.
C2_ShortReads == <>(hist.ended /\ out = Expected)

\* a member read to its end through would-blocks
C2_Witness ==
    /\ hist.blocked /\ hist.ended /\ ~multi
    /\ out # <<>> /\ out = Expected
    /\ header # <<>> /\ header[1].filename # <<>>

\* C3 as stated: once a read has returned 0, every later read returns 0.
C3_AnyZeroIsFinal == hist.zero => (last.kind = "ok" /\ last.n = 0)

\* C3: idempotent end.  Once a read into a non-empty destination has
\* returned 0, every later read, with any destination, returns 0.
C3_EndIsFinal == hist.ended => (last.kind = "ok" /\ last.n = 0)

\* after the end, a read with another destination (an empty one) returns 0
C3_Witness == hist.ended /\ last.cap = 0 /\ last.pre = "End" /\ out # <<>>

\* C4: fatal error latching.  Whenever a read returns an error that is not
\* would-block, the state is End when the call returns.
C4_FatalLatched == (last.kind = "err" /\ last.err # "WouldBlock") => inner.tag = "End"

\* the trailer t.buf carries the checksum t.crc, as read_footer writes it
TrailerOk(t) == t.buf = Footer(t.crc)

\* C5: trailer validation.  Every trailer a read has completed carries the
\* CRC reader's sum() and amount(), unless it is the last one, the read
\* returned the corrupt error and the state is End; and a read that begins
\* in End returns 0.
C5_TrailerChecked ==
    /\ \A i \in 1..Len(last.done8) :
          \/ TrailerOk(last.done8[i])
          \/ /\ i = Len(last.done8)
             /\ last.kind = "err" /\ last.err = "Corrupt"
             /\ inner.tag = "End"
    /\ (last.pre = "End" => (last.kind = "ok" /\ last.n = 0))

\* a trailer with the right CRC and the wrong ISIZE was refused
C5_Witness ==
    /\ last.done8 # <<>>
    /\ ~TrailerOk(last.done8[1])
    /\ \A i \in 1..4 : last.done8[1].buf[i] = Footer(last.done8[1].crc)[i]
    /\ last.err = "Corrupt"

\* C9 as stated: header() is Some iff a header has been parsed since the
\* decoder was created.
C9_SomeIffEverParsed == (Header(Dec) # <<>>) <=> (hist.parsed >= 1)

\* C9: header accessor.  header() is Some iff the header of the current
\* member has been parsed; and it is that member's header.
C9_SomeIffParsed ==
    /\ (Header(Dec) # <<>>) <=> (hist.parsed = hist.members)
    /\ (Header(Dec) # <<>> /\ scen.at = 0) => Header(Dec)[1] = Headers(scen)[hist.members]

\* between two members MultiGzDecoder has no header
C9_Witness == multi /\ hist.members = 2 /\ hist.parsed = 1 /\ Header(Dec) = <<>>

\* C10: resumable header parse.  In state Header(buf), buf is exactly the
\* source bytes consumed for this member so far; a read that stays in
\* Header returns would-block; and the header that comes out of the
\* attempts is the one the bytes carry.
C10_Resumable ==
    /\ inner.tag = "Header" => inner.buf = SubSeq(input, mstart + 1, r.taken)
    /\ (last.pre = "Header" /\ last.path = <<>>) =>
          (last.kind = "err" /\ last.err = "WouldBlock" /\ inner.tag = "Header")
    /\ (header # <<>> /\ scen.at = 0) => header[1] = Headers(scen)[hist.members]

\* an unexpected EOF from the source in the middle of a header
C10_Witness ==
    /\ last.src = "UnexpectedEof" /\ last.pre = "Header"
    /\ last.kind = "err" /\ last.err = "WouldBlock"
    /\ inner.tag = "Header" /\ Len(inner.buf) > 2

\* a valid member followed by a member whose magic is wrong
BadSecond == Sc(<<M1, M1>>, Len(One) + 2, 0)

\* C11: bad second member.  Over a valid member followed by bytes whose
\* magic is wrong, and a source that never fails: the output is a prefix
\* of the first member's plaintext; GzDecoder returns no error but
\* would-block, and once it has returned 0 into a non-empty destination it
\* is in End with the whole plaintext delivered; MultiGzDecoder returns 0
\* into a non-empty destination only after its one error, which is the
\* bad-header error, comes after the whole plaintext and leaves it in End,
\* where every read returns 0.
C11_BadSecondMember ==
    (scen = BadSecond /\ Sound) =>
        /\ IsPrefix(out, scen.members[1].plain)
        /\ ~multi =>
              /\ hist.fatal = 0
              /\ hist.ended => (inner.tag = "End" /\ out = scen.members[1].plain)
        /\ multi =>
              /\ hist.fatal <= 1
              /\ hist.ended => hist.fatal = 1
              /\ (last.kind = "err" /\ last.err # "WouldBlock") => last.err = "BadHeader"
              /\ hist.fatal = 1 => (inner.tag = "End" /\ out = scen.members[1].plain)
        /\ last.pre = "End" => (last.kind = "ok" /\ last.n = 0 /\ inner.tag = "End")

\* MultiGzDecoder has returned the bad-header error, and then 0
C11_Witness ==
    /\ scen = BadSecond /\ Sound /\ multi
    /\ hist.fatal = 1 /\ hist.ended
    /\ last.pre = "End" /\ last.cap > 0 /\ last.n = 0
    /\ out = scen.members[1].plain

\* ID1, ID2 and CM are those of gzip
Magic(b) == b[1] = 31 /\ b[2] = 139 /\ b[3] = 8

\* the two bytes that end at n are the low 16 bits of the CRC-32 of the
\* bytes before them
HcrcOk(b, n) == b[n - 1] + 256 * b[n] = Crc32(Take(b, n - 2)).lo

\* C12: header validation.  read_gz_header returns bad_header when ID1,
\* ID2, CM are not 1F 8B 08; it returns a header only if they are and, with
\* FHCRC set, the two bytes it read last are the low 16 bits of the CRC-32
\* of all the bytes it read before them; it returns corrupt only when they
\* are not, and does so when a stored CRC byte was changed; the unchanged
\* header parses to the record it describes; and the result is the same as
\* for the input without the reserved FLG bits.
C12_HeaderValidation ==
    hres # <<>> =>
        /\ ~Magic(hin.bytes) => (hres[1].kind = "BadHeader" /\ hres[1].hdr = <<>>)
        /\ hres[1].kind = "ok" =>
              /\ Magic(hin.bytes)
              /\ hres[1].hdr # <<>>
              /\ HasFlag(hin.bytes[4], FHCRC) => HcrcOk(hin.bytes, hres[1].taken)
        /\ hres[1].kind = "Corrupt" =>
              /\ Magic(hin.bytes)
              /\ HasFlag(hin.bytes[4], FHCRC)
              /\ ~HcrcOk(hin.bytes, hres[1].taken)
        /\ (hin.h.hcrc /\ hin.at > Len(HdrBytesWith(hin.h, hin.res)) - 2) =>
              hres[1].kind = "Corrupt"
        /\ hin.at = 0 =>
              /\ hres[1].kind = "ok"
              /\ hres[1].hdr = <<GzHeader(hin.h.extra, hin.h.filename, hin.h.comment,
                                          hin.h.operating_system, hin.h.mtime)>>
              /\ hres[1].taken = Len(HdrBytesWith(hin.h, hin.res))
        /\ [kind |-> hres[1].kind, hdr |-> hres[1].hdr]
              = [kind |-> ParseOf(HdrInput(hin.h, 0, hin.at).bytes).kind,
                 hdr |-> ParseOf(HdrInput(hin.h, 0, hin.at).bytes).hdr]

\* a header with every reserved bit set and a header CRC was accepted
C12_Witness ==
    /\ hres # <<>> /\ hres[1].kind = "ok"
    /\ hin.res = 224 /\ hin.h.hcrc /\ hin.h.extra # <<>>

\* the input ends inside the header the decoder was parsing, with no error
\* of the source pending: its last read of the source, made by GzDecoder::new
\* (no read yet) or by the last read, returned 0 bytes
ZeroReadInHeader ==
    /\ scen.at = 0 /\ scen.cut = Len(One) - 5
    /\ r.data = <<>> /\ r.err = "none"
    /\ \/ last.kind = "none"
       \/ last.pre = "Header"
       \/ Count(last.path, "Header") > 0

\* C13 as stated: a read of 0 bytes from the source inside a header takes
\* the short-read path: would-block, and the state stays Header(buf) with
\* the bytes consumed.
C13_ZeroReadIsShort ==
    ZeroReadInHeader =>
        /\ inner.tag = "Header" /\ inner.buf = SubSeq(input, mstart + 1, r.taken)
        /\ last.kind # "none" => (last.kind = "err" /\ last.err = "WouldBlock")

\* C13: a read of 0 bytes from the source inside a header is an invalid
\* header, a fatal error: GzDecoder::new leaves Err(bad_header), a read
\* returns bad_header and leaves End, and the next read returns bad_header
\* once or 0.
C13_ZeroReadIsFatal ==
    /\ ZeroReadInHeader =>
          IF last.kind = "none" THEN inner = StErr("BadHeader")
          ELSE last.kind = "err" /\ last.err = "BadHeader" /\ inner.tag = "End"
    /\ (scen.at = 0 /\ scen.cut = Len(One) - 5 /\ last.pre = "Err") =>
          (last.kind = "err" /\ last.err = "BadHeader" /\ inner.tag = "End")

\* the input ended inside the second member's header, after would-block
C13_Witness ==
    /\ ZeroReadInHeader /\ multi /\ hist.blocked
    /\ last.pre = "Header" /\ last.err = "BadHeader"
    /\ out = scen.members[1].plain /\ r.taken = Len(input)

\* C14 as stated: a read that returns would-block leaves the state variant,
\* the trailer position and bytes, the stored header and the checksum as
\* the call found them.
C14_FrameFromBegin ==
    (last.kind = "err" /\ last.err = "WouldBlock") => Snap(Dec) = last.begin

\* C14: would-block frame condition.  A read that returns would-block
\* delivers nothing and leaves the state variant, the trailer position and
\* bytes, the stored header and the checksum as they were when the arm
\* whose source operation would-blocked was entered, and, if the call
\* consumed no source byte, as the call found them (the header replay
\* buffer too).
C14_FrameFromStep ==
    (last.kind = "err" /\ last.err = "WouldBlock") =>
        /\ last.n = 0
        /\ Snap(Dec) = last.entry
        /\ last.took = 0 => (Snap(Dec) = last.begin /\ last.path = <<>>)
        /\ inner.tag = "Header" => inner.buf = SubSeq(input, mstart + 1, r.taken)

\* would-block after the call went from Body to Finished and collected
\* trailer bytes
C14_Witness ==
    /\ last.kind = "err" /\ last.err = "WouldBlock"
    /\ last.pre = "Body" /\ inner.tag = "Finished" /\ inner.pos > 0
    /\ Snap(Dec) = last.entry /\ last.src = "none"

\* the states of the last read: the one it began in, then those it entered
Visited == <<last.pre>> \o last.path

\* C15: decoder transitions.  A read moves the state only along
\* Header -> Body, Body -> Finished, Finished -> End, Finished -> Header,
\* or from any state to End as its last move, returning an error; it ends
\* in the last state it entered; Finished -> Header is taken only from
\* Finished with all 8 trailer bytes, which match the checksum, with multi
\* true and bytes ready in the source; a read that begins in End stays
\* there; and between reads the state does not move.
C15_Transitions ==
    /\ last.kind # "none" =>
          /\ \A i \in 1..Len(last.path) :
                \/ Visited[i] = "Header" /\ Visited[i + 1] = "Body"
                \/ Visited[i] = "Body" /\ Visited[i + 1] = "Finished"
                \/ Visited[i] = "Finished" /\ Visited[i + 1] \in {"End", "Header"}
                \/ /\ Visited[i + 1] = "End" /\ i = Len(last.path)
                   /\ last.kind = "err" /\ last.err # "WouldBlock"
          /\ inner.tag = Visited[Len(Visited)]
          /\ Len(last.resets) = Count(last.path, "Header")
          /\ \A i \in 1..Len(last.resets) :
                /\ last.resets[i].multi /\ multi
                /\ last.resets[i].ready > 0
                /\ last.resets[i].inner.tag = "Finished" /\ last.resets[i].inner.pos = 8
                /\ TrailerOk([buf |-> last.resets[i].inner.buf, crc |-> last.resets[i].crc])
          /\ last.pre = "End" => last.path = <<>>
    /\ last.kind = "none" => inner.tag \in {"Header", "Body", "Err"}

\* one read of MultiGzDecoder went from the first member's body through its
\* trailer and the second member's header to its body
C15_Witness ==
    /\ multi /\ Visited = <<"Body", "Finished", "Header", "Body">>
    /\ Len(last.resets) = 1 /\ last.kind = "ok" /\ last.n > 0

\* a member whose last 3 trailer bytes are missing
TrailerCut == Sc(<<M1>>, 0, 3)

\* C16: trailer collection.  In Finished(pos, trailer), pos is at most 8 and
\* the trailer holds the last pos bytes taken from the source, then zeros,
\* also after a read that returned would-block; and when the source ends
\* inside the trailer, the read that finds 0 bytes returns unexpected-EOF
\* and leaves End.
C16_TrailerCollection ==
    /\ inner.tag = "Finished" =>
          /\ inner.pos \in 0..8
          /\ inner.pos <= r.taken
          /\ inner.buf = SubSeq(input, r.taken - inner.pos + 1, r.taken)
                            \o SubSeq(Zero8, inner.pos + 1, 8)
    /\ (last.pre = "Finished" /\ last.kind = "err" /\ last.err = "WouldBlock") =>
          /\ inner.tag \in {"Finished", "Header"}
          /\ inner.tag = "Finished" => inner.pos = last.begin.pos + last.took
    /\ (scen = TrailerCut /\ r.data = <<>>) =>
          /\ inner.tag = "End" /\ hist.fatal >= 1
          /\ last.pre # "End" => (last.kind = "err" /\ last.err = "UnexpectedEof")

\* the source ended inside a trailer begun by an earlier read
C16_Witness ==
    /\ scen = TrailerCut /\ r.data = <<>>
    /\ last.pre = "Finished" /\ last.begin.pos > 0 /\ last.took > 0
    /\ last.err = "UnexpectedEof" /\ inner.tag = "End"

\* the plaintext delivered since the current member began: out without the
\* plaintext of the members before it
Since == Drop(out, Len(Flatten(SubSeq(Plains(scen), 1, hist.members - 1))))

\* C18: per-member checksum scope.  The CRC reader's sum and amount are
\* those of the plaintext delivered since the current member began (of
\* nothing, once Next::Header has reset them); the members before it were
\* delivered whole; and each trailer a read completes is met by the
\* checksum of its own member's plaintext.
C18_ChecksumScope ==
    /\ reader.crc = CrcUpdate(CrcNew, Since)
    /\ Take(out, Len(out) - Len(Since)) = Flatten(SubSeq(Plains(scen), 1, hist.members - 1))
    /\ \A i \in 1..Len(last.done8) :
          last.done8[i].crc =
              CrcUpdate(CrcNew,
                        Plains(scen)[hist.members - Count(last.path, "Header") + i - 1])

\* the second member's trailer was completed with the checksum of the
\* second member's plaintext, which is not that of the whole output
C18_Witness ==
    /\ multi /\ hist.members = 2 /\ last.done8 # <<>> /\ Since # <<>>
    /\ out # Since
    /\ TrailerOk(last.done8[Len(last.done8)])
    /\ reader.crc = CrcUpdate(CrcNew, Since)
    /\ reader.crc # CrcUpdate(CrcNew, out)

\* where the scenario's k-th member begins in the input, and which member
\* begins at offset ms
StartOf(k) == Len(StreamBytes(SubSeq(scen.members, 1, k - 1)))

MemberAt(ms) == CHOOSE k \in 1..Len(scen.members) : StartOf(k) = ms

\* the length of the header of the member that begins at offset ms
HdrLenAt(ms) == Len(HdrBytes(scen.members[MemberAt(ms)].h))

\* C21: no header over-read.  While a header is being parsed, over any
\* number of attempts, the bytes taken from the source since the member
\* began are fewer than its header has, or as many in a header refused;
\* and each time a header is parsed, by GzDecoder::new or by a read, the
\* source stands exactly at the end of that header, so that the next byte
\* is the first of the deflate body.
C21_NoOverRead ==
    /\ inner.tag = "Header" => r.taken - mstart < HdrLenAt(mstart)
    /\ r.taken - mstart <= Len(input) - mstart
    /\ (last.kind = "none" /\ inner.tag = "Body") => r.taken = HdrLenAt(0)
    /\ (last.kind = "none" /\ inner.tag = "Err") => r.taken <= HdrLenAt(0)
    /\ \A i \in 1..Len(last.hends) :
          /\ last.hends[i].taken = last.hends[i].mstart + HdrLenAt(last.hends[i].mstart)
          /\ SubSeq(input, last.hends[i].mstart + 1, last.hends[i].taken)
                = HdrBytes(scen.members[MemberAt(last.hends[i].mstart)].h)

\* a header with a name and a header CRC, parsed over several attempts
C21_Witness ==
    /\ last.hends # <<>> /\ last.pre = "Header" /\ hist.blocked
    /\ last.begin.header = <<>> /\ header # <<>> /\ header[1].filename # <<>>
    /\ last.hends[1].taken = Len(HdrBytes(scen.members[1].h))

(***************************************************************************)
(* Properties of the encoder                                               *)
(***************************************************************************)
\* header ++ compressed body ++ trailer
EncExpected == enc.header \o Deflate(plain) \o Footer(CrcUpdate(CrcNew, plain))

\* C6: encoder output order.  While every read has had a non-empty
\* destination and none has failed, the bytes returned are a prefix of
\* header ++ compressed body ++ trailer, no trailer byte has been written
\* unless the compressor has ended, and a read made after all 8 trailer
\* bytes were emitted returns 0.
C6_Order ==
    (~ehist.emptied /\ ~ehist.failed) =>
        /\ IsPrefix(sent, EncExpected)
        /\ (trail # <<>> => (enc.eof /\ enc.inner.z = "end" /\ enc.inner.pend = <<>>))
        /\ ((elast.eof /\ elast.pos = 8) => (elast.kind = "ok" /\ elast.n = 0))

\* everything was emitted, and a later read returned 0
C6_Witness ==
    /\ ~ehist.emptied /\ ~ehist.failed
    /\ plain # <<>> /\ sent = EncExpected
    /\ elast.eof /\ elast.pos = 8 /\ elast.cap > 0 /\ elast.n = 0

\* C7: encoder trailer content.  Once all 8 trailer bytes are emitted they
\* are the CRC-32 of the whole plaintext and its length, little-endian.
C7_Trailer == (enc.eof /\ enc.pos = 8) => trail = Footer(CrcUpdate(CrcNew, plain))

\* C8 as stated: a read returns the number of bytes it wrote, and a read
\* returning 0 means the stream has ended.
C8_CountAndAnyZero ==
    /\ elast.kind = "ok" => elast.n = Len(elast.dst)
    /\ (elast.kind = "ok" /\ elast.n = 0) => (enc.eof /\ enc.pos = 8)

\* C8: encoder read count.  A read returns the number of bytes it wrote,
\* and a read into a non-empty destination returning 0 means the stream has
\* ended: the trailer is out.
C8_Count ==
    /\ elast.kind = "ok" => elast.n = Len(elast.dst)
    /\ (elast.kind = "ok" /\ elast.n = 0 /\ elast.cap > 0) => (enc.eof /\ enc.pos = 8)

\* a read into a non-empty destination returned 0
C8_Witness == elast.kind = "ok" /\ elast.n = 0 /\ elast.cap > 0 /\ sent # <<>>

\* C17: encoder cursor invariant.  pos is at most header.len() while eof is
\* false and at most 8 while eof is true; eof, once true, stays true; and
\* pos was set to 0 when eof became true: from then on it is the number of
\* trailer bytes written.
C17_Cursor ==
    /\ ~enc.eof => (enc.pos \in 0..Len(enc.header) /\ trail = <<>>)
    /\ enc.eof => (enc.pos \in 0..8 /\ enc.pos = Len(trail))
    /\ (elast.kind # "none" /\ elast.eof) => enc.eof

\* the read that ended the body, after the whole header, wrote trailer bytes
C17_Witness ==
    /\ ~elast.eof /\ elast.pos = Len(enc.header) /\ elast.kind = "ok"
    /\ enc.eof /\ enc.pos \in 1..7

\* C19: the encoder loses no output on an error.  While every read has had
\* a non-empty destination, whatever errors the source has returned, the
\* bytes the successful reads reported are a prefix of header ++ compressed
\* body ++ trailer, and all of it once a read has returned 0.
C19_NoLoss ==
    ~ehist.emptied =>
        /\ IsPrefix(sent, EncExpected)
        /\ (elast.kind = "ok" /\ elast.n = 0 /\ elast.cap > 0) => sent = EncExpected

\* C20: the encoder's read into an empty destination is a no-op.  Such a
\* read, when it does not fail, returns 0 and leaves pos and eof as it
\* found them; and so, whatever the destinations, the bytes the reads
\* reported are a prefix of header ++ compressed body ++ trailer while no
\* read has failed.
C20_EmptyReadNoOp ==
    /\ (elast.kind = "ok" /\ elast.cap = 0) =>
          (elast.n = 0 /\ enc.pos = elast.pos /\ enc.eof = elast.eof)
    /\ ~ehist.failed => IsPrefix(sent, EncExpected)

=============================================================================
